---- MODULE Spec2Model ----
(***************************************************************************)
(* Model of the Potongin backend (src/main.py): the /api/fetch handler     *)
(* (video id extraction, transcript track selection, cue normalisation),   *)
(* and the /api/clips handlers (create_clip, list_clips) over the clip     *)
(* store.                                                                  *)
(***************************************************************************)
EXTENDS Integers, Sequences, FiniteSets, TLC

(***************************************************************************)
(* Bounds of the model.                                                    *)
(***************************************************************************)
\* longest transcript list the provider reports in the selection runs
MaxTracks == 3

\* Python's None for an optional string (payload.language)
None == "None"

(***************************************************************************)
(* Transcript tracks and the TranscriptList the provider hands to          *)
(* fetch_transcript.  A track is a language code with a manual/generated   *)
(* flag; the list holds at most one manual and one generated track per     *)
(* language code, in the order the provider reported them.                 *)
(***************************************************************************)
LanguageCodes == {"id", "en", "fr", "de"}

Track(code, gen) == [language_code |-> code, is_generated |-> gen]

AllTracks == {Track(c, g) : c \in LanguageCodes, g \in BOOLEAN}

Range(s) == {s[i] : i \in 1..Len(s)}

Injective(s) == \A i, j \in 1..Len(s) : s[i] = s[j] => i = j

TrackListsUpTo(n) ==
    UNION {{s \in [1..k -> AllTracks] : Injective(s)} : k \in 0..n}

IsManual(t) == ~t.is_generated

IsGenerated(t) == t.is_generated

\* iteration order of a TranscriptList: manual tracks, then generated ones
TranscriptListIter(tl) == SelectSeq(tl, IsManual) \o SelectSeq(tl, IsGenerated)

\* a lookup result: the track found (a one-element sequence), or <<>> when
\* the lookup raised NoTranscriptFound
FirstWith(tl, code, gen) ==
    LET hits == {i \in 1..Len(tl) : tl[i] = Track(code, gen)}
    IN  IF hits = {} THEN <<>> ELSE <<Track(code, gen)>>

RECURSIVE find_manually_created_transcript(_, _)
find_manually_created_transcript(tl, codes) ==
    IF codes = <<>> THEN <<>>
    ELSE LET m == FirstWith(tl, Head(codes), FALSE)
         IN  IF m # <<>> THEN m
             ELSE find_manually_created_transcript(tl, Tail(codes))

RECURSIVE find_transcript(_, _)
find_transcript(tl, codes) ==
    IF codes = <<>> THEN <<>>
    ELSE LET m == FirstWith(tl, Head(codes), FALSE)
             g == FirstWith(tl, Head(codes), TRUE)
         IN  IF m # <<>> THEN m
             ELSE IF g # <<>> THEN g
             ELSE find_transcript(tl, Tail(codes))

\* truthiness of payload.language: None and the empty string are falsy
LanguageGiven(language) == language \notin {None, ""}

preferred == <<"id", "en">>

\* RequestedLookup with the generated track tried before the manual one
RequestedLookupGeneratedFirst(tl, language) ==
    IF ~LanguageGiven(language) THEN <<>>
    ELSE LET g == FirstWith(tl, language, TRUE)
         IN  IF g # <<>> THEN g ELSE find_transcript(tl, <<language>>)

\* lines 94-101: the requested language, manual first, then any
RequestedLookup(tl, language) ==
    IF ~LanguageGiven(language) THEN <<>>
    ELSE LET m == find_manually_created_transcript(tl, <<language>>)
         IN  IF m # <<>> THEN m ELSE find_transcript(tl, <<language>>)

\* PreferredLookup with a manual track of any preferred code tried first
PreferredLookupManualFirst(tl, codes) ==
    LET m == find_manually_created_transcript(tl, codes)
    IN  IF m # <<>> THEN m ELSE find_transcript(tl, codes)

\* PreferredLookup taking the first reported track with a preferred code
PreferredLookupArrival(tl, codes) ==
    LET hits == {i \in 1..Len(tl) : tl[i].language_code \in Range(codes)}
    IN  IF hits = {} THEN <<>>
        ELSE <<tl[CHOOSE i \in hits : \A j \in hits : i <= j]>>

\* lines 105-114: the loop over the preferred codes, first match breaks
RECURSIVE PreferredLookup(_, _)
PreferredLookup(tl, codes) ==
    IF codes = <<>> THEN <<>>
    ELSE LET m == find_manually_created_transcript(tl, <<Head(codes)>>)
             a == find_transcript(tl, <<Head(codes)>>)
         IN  IF m # <<>> THEN m
             ELSE IF a # <<>> THEN a
             ELSE PreferredLookup(tl, Tail(codes))

\* FallbackLookup looking for the preferred codes once more
FallbackLookupPreferred(tl) == find_transcript(tl, preferred)

\* lines 115-117: fallback to the first available track
FallbackLookup(tl) ==
    LET it == TranscriptListIter(tl)
    IN  find_transcript(tl, [i \in 1..Len(it) |-> it[i].language_code])

\* lines 93-117: the selected track, or the exception the selection raises
SelectTranscript(tl, language) ==
    LET r == RequestedLookup(tl, language)
        p == PreferredLookup(tl, preferred)
        f == FallbackLookup(tl)
    IN  IF r # <<>> THEN [exc |-> "", transcript |-> r]
        ELSE IF p # <<>> THEN [exc |-> "", transcript |-> p]
        ELSE IF f # <<>> THEN [exc |-> "", transcript |-> f]
        ELSE [exc |-> "NoTranscriptFound", transcript |-> <<>>]

(***************************************************************************)
(* extract_youtube_id: strings are sequences of one-character strings.     *)
(***************************************************************************)
\* the {11} of YOUTUBE_ID_REGEX
IdLen == 11

IdChars ==
    {"A", "B", "C", "D", "E", "F", "G", "H", "I", "J", "K", "L", "M", "N",
      "O", "P", "Q", "R", "S", "T", "U", "V", "W", "X", "Y", "Z", "a", "b",
      "c", "d", "e", "f", "g", "h", "i", "j", "k", "l", "m", "n", "o", "p",
      "q", "r", "s", "t", "u", "v", "w", "x", "y", "z", "0", "1", "2", "3",
      "4", "5", "6", "7", "8", "9", "_", "-"}

\* the alternatives of the non-capturing group (?:v=|be/|embed/)
Markers == {<<"v", "=">>, <<"b", "e", "/">>, <<"e", "m", "b", "e", "d", "/">>}

\* the regex matches at position p with marker m
MatchesAt(url, p, m) ==
    /\ p + Len(m) + IdLen - 1 <= Len(url)
    /\ SubSeq(url, p, p + Len(m) - 1) = m
    /\ \A i \in 0..(IdLen - 1) : url[p + Len(m) + i] \in IdChars

\* re.search returns the leftmost match; group(1) is the 11-character run
extract_youtube_id(url) ==
    LET starts == {p \in 1..Len(url) : \E m \in Markers : MatchesAt(url, p, m)}
    IN  IF starts = {} THEN <<>>
        ELSE LET p == CHOOSE q \in starts : \A r \in starts : q <= r
                 m == CHOOSE n \in Markers : MatchesAt(url, p, n)
             IN  SubSeq(url, p + Len(m), p + Len(m) + IdLen - 1)

\* https://youtu.be/dQw4w9WgXcQ
UrlShort ==
    <<"h", "t", "t", "p", "s", ":", "/", "/", "y", "o", "u", "t", "u", ".",
      "b", "e", "/", "d", "Q", "w", "4", "w", "9", "W", "g", "X", "c",
      "Q">>

\* https://www.youtube.com/watch?v=abcdefghijk&t=1
UrlWatch ==
    <<"h", "t", "t", "p", "s", ":", "/", "/", "w", "w", "w", ".", "y", "o",
      "u", "t", "u", "b", "e", ".", "c", "o", "m", "/", "w", "a", "t", "c",
      "h", "?", "v", "=", "a", "b", "c", "d", "e", "f", "g", "h", "i", "j",
      "k", "&", "t", "=", "1">>

\* embed/AAAAAAAAAAA_-9
UrlEmbedLong ==
    <<"e", "m", "b", "e", "d", "/", "A", "A", "A", "A", "A", "A", "A", "A",
      "A", "A", "A", "_", "-", "9">>

\* https://youtu.be/dQw4w9WgXc
UrlTooShort ==
    <<"h", "t", "t", "p", "s", ":", "/", "/", "y", "o", "u", "t", "u", ".",
      "b", "e", "/", "d", "Q", "w", "4", "w", "9", "W", "g", "X", "c">>

\* be/tiny?v=0123456789Z
UrlLateMatch ==
    <<"b", "e", "/", "t", "i", "n", "y", "?", "v", "=", "0", "1", "2", "3",
      "4", "5", "6", "7", "8", "9", "Z">>

\* not a url
UrlNone ==
    <<"n", "o", "t", " ", "a", " ", "u", "r", "l">>

(***************************************************************************)
(* Python floats: finite values are kept in tenths (Fin(129) is 12.9),     *)
(* and the non-finite values a JSON body can carry are kept apart.         *)
(***************************************************************************)
Fin(n) == [k |-> "fin", v |-> n]

NaN == [k |-> "nan", v |-> 0]

PosInf == [k |-> "inf", v |-> 1]

NegInf == [k |-> "inf", v |-> -1]

\* a <= b on floats: every comparison with NaN is false
FloatLe(a, b) ==
    IF a.k = "nan" \/ b.k = "nan" THEN FALSE
    ELSE IF a.k = "inf" THEN a.v = -1 \/ b = a
    ELSE IF b.k = "inf" THEN b.v = 1
    ELSE a.v <= b.v

\* a > b on floats
FloatGt(a, b) ==
    IF a.k = "nan" \/ b.k = "nan" THEN FALSE
    ELSE IF a.k = "inf" THEN a.v = 1 /\ b # a
    ELSE IF b.k = "inf" THEN b.v = -1
    ELSE a.v > b.v

\* a + b on floats
FloatAdd(a, b) ==
    IF a.k = "nan" \/ b.k = "nan" THEN NaN
    ELSE IF a.k = "inf" /\ b.k = "inf" THEN (IF a = b THEN a ELSE NaN)
    ELSE IF a.k = "inf" THEN a
    ELSE IF b.k = "inf" THEN b
    ELSE Fin(a.v + b.v)

\* Trunc rounding to the nearest integer
TruncRound(n) == (n + 5) \div 10

\* int(x) of a finite float truncates toward zero
Trunc(n) == IF n >= 0 THEN n \div 10 ELSE -((-n) \div 10)

\* int(x): the integer, or the exception int() raises
IntOf(x) ==
    IF x.k = "nan" THEN [exc |-> "ValueError", n |-> 0]
    ELSE IF x.k = "inf" THEN [exc |-> "OverflowError", n |-> 0]
    ELSE [exc |-> "", n |-> Trunc(x.v)]

(***************************************************************************)
(* Normalisation of the raw cues (lines 119-125).  A cue is a dict: a      *)
(* function from some of the keys start, duration, text.  A start or       *)
(* duration is a float, or a value float() cannot convert (Malformed).     *)
(***************************************************************************)
Malformed == [k |-> "str", v |-> 0]

Whitespace == {" ", "\n", "\t"}

\* item.get(key, default)
Get(item, key, default) == IF key \in DOMAIN item THEN item[key] ELSE default

\* str.replace("\n", " ")
ReplaceNewlines(text) ==
    [i \in 1..Len(text) |-> IF text[i] = "\n" THEN " " ELSE text[i]]

\* str.strip()
Strip(text) ==
    LET keep == {i \in 1..Len(text) : text[i] \notin Whitespace}
    IN  IF keep = {} THEN <<>>
        ELSE LET lo == CHOOSE i \in keep : \A j \in keep : i <= j
                 hi == CHOOSE i \in keep : \A j \in keep : j <= i
             IN  SubSeq(text, lo, hi)

\* float(x) raises on a value it cannot convert
FloatRaises(x) == x.k = "str"

ItemRaises(item) ==
    \/ FloatRaises(Get(item, "start", Fin(0)))
    \/ FloatRaises(Get(item, "duration", Fin(0)))

\* lines 121-125: the TranscriptSegmentOut built for raw[i], enumerate index i
SegmentOf(item, i) ==
    LET start == Get(item, "start", Fin(0))
        dur   == Get(item, "duration", Fin(0))
    IN  [start |-> start,
         end   |-> FloatAdd(start, dur),
         text  |-> Strip(ReplaceNewlines(Get(item, "text", <<>>))),
         index |-> i]

\* NormalizeFrom dropping the cues of zero duration
RECURSIVE NormalizeFromFiltering(_, _, _)
NormalizeFromFiltering(raw, i, segments) ==
    IF i >= Len(raw) THEN [exc |-> "", segments |-> segments]
    ELSE IF ItemRaises(raw[i + 1]) THEN [exc |-> "ValueError", segments |-> <<>>]
    ELSE IF Get(raw[i + 1], "duration", Fin(0)) = Fin(0)
    THEN NormalizeFromFiltering(raw, i + 1, segments)
    ELSE NormalizeFromFiltering(raw, i + 1,
                                Append(segments, SegmentOf(raw[i + 1], i)))

\* lines 119-125: the loop; an exception in one item abandons the list
RECURSIVE NormalizeFrom(_, _, _)
NormalizeFrom(raw, i, segments) ==
    IF i >= Len(raw) THEN [exc |-> "", segments |-> segments]
    ELSE IF ItemRaises(raw[i + 1]) THEN [exc |-> "ValueError", segments |-> <<>>]
    ELSE NormalizeFrom(raw, i + 1, Append(segments, SegmentOf(raw[i + 1], i)))

Normalize(raw) == NormalizeFrom(raw, 0, <<>>)

(***************************************************************************)
(* Exceptions and the responses fetch_transcript maps them to.             *)
(***************************************************************************)
\* the [:120] of line 130
DetailMax == 120

Digits == <<"0", "1", "2", "3", "4", "5", "6", "7", "8", "9">>

\* an error message of n characters
Msg(n) == [i \in 1..n |-> Digits[(i % 10) + 1]]

Exc(type, msg) == [type |-> type, msg |-> msg]

NoExc == Exc("", <<>>)

\* str(e) of the ValueError float() raises: 38 characters
ValueErrorMsg == Msg(38)

Min(a, b) == IF a <= b THEN a ELSE b

NoResponse == [status |-> 0, detail |-> <<>>, video_id |-> <<>>, segments |-> <<>>]

HTTPException(status, detail) ==
    [status |-> status, detail |-> detail, video_id |-> <<>>, segments |-> <<>>]

FetchResponse(video_id, segments) ==
    [status |-> 200, detail |-> <<>>, video_id |-> video_id, segments |-> segments]

\* Handle without the [:120]
HandleUntruncated(e) ==
    IF e.type \in {"TranscriptsDisabled", "NoTranscriptFound"}
    THEN HTTPException(404, <<"Transkrip tidak tersedia untuk video ini.">>)
    ELSE HTTPException(500, <<"Gagal mengambil transkrip: ">> \o e.msg)

\* lines 127-130: the except clauses of fetch_transcript
Handle(e) ==
    IF e.type \in {"TranscriptsDisabled", "NoTranscriptFound"}
    THEN HTTPException(404, <<"Transkrip tidak tersedia untuk video ini.">>)
    ELSE HTTPException(500, <<"Gagal mengambil transkrip: ">>
                             \o SubSeq(e.msg, 1, Min(DetailMax, Len(e.msg))))

(***************************************************************************)
(* State.                                                                  *)
(***************************************************************************)
VARIABLES
    pc,               \* position of the fetch request: idle, listing, fetching
    payload,          \* the FetchRequest being served
    vid,              \* extract_youtube_id(payload.url), <<>> for None
    transcript_list,  \* what list_transcripts returned
    transcript,       \* the selected track, <<>> while there is none
    raw,              \* the cues transcript.fetch() returned
    calls,            \* provider calls of the request being served, in order
    fetch_response,   \* response of the last finished fetch request
    store,            \* the "clip" collection of the store, in insertion order
    clip_request,     \* the last create-clip / list-clips request
    clip_response,    \* and its response
    sel               \* two selection runs over one set of tracks

vars == <<pc, payload, vid, transcript_list, transcript, raw, calls,
          fetch_response, store, clip_request, clip_response, sel>>

fetch_vars == <<pc, payload, vid, transcript_list, transcript, raw, calls,
                fetch_response>>

clip_vars == <<store, clip_request, clip_response>>

(***************************************************************************)
(* POST /api/fetch.  The handler blocks in the two provider calls, so it   *)
(* is three steps: up to list_transcripts, up to transcript.fetch(), and   *)
(* the rest.                                                               *)
(***************************************************************************)
\* a provider call as the log keeps it: the operation and what it raised
ProviderCall(op, e) == [op |-> op, ok |-> e = NoExc, exc |-> e]

\* lines 85-88
FetchStart(url, language) ==
    /\ pc = "idle"
    /\ payload' = [url |-> url, language |-> language]
    /\ vid' = extract_youtube_id(url)
    /\ transcript_list' = <<>>
    /\ transcript' = <<>>
    /\ raw' = <<>>
    /\ calls' = <<>>
    /\ IF vid' = <<>>
       THEN /\ fetch_response' = HTTPException(400, <<"URL YouTube tidak valid.">>)
            /\ pc' = "idle"
       ELSE /\ fetch_response' = NoResponse
            /\ pc' = "listing"
    /\ UNCHANGED <<clip_vars, sel>>

\* ListTranscripts calling list_transcripts again after a failure
ListTranscriptsRetry(outcome) ==
    /\ pc = "listing"
    /\ calls' = Append(calls, ProviderCall("list_transcripts", outcome.exc))
    /\ IF outcome.exc # NoExc
       THEN /\ pc' = IF Len(calls) = 0 THEN "listing" ELSE "idle"
            /\ fetch_response' = IF Len(calls) = 0 THEN fetch_response
                                  ELSE Handle(outcome.exc)
            /\ UNCHANGED <<transcript_list, transcript>>
       ELSE LET s == SelectTranscript(outcome.value, payload.language)
            IN  /\ transcript_list' = outcome.value
                /\ transcript' = s.transcript
                /\ IF s.exc # ""
                   THEN /\ fetch_response' = Handle(Exc(s.exc, <<>>))
                        /\ pc' = "idle"
                   ELSE /\ pc' = "fetching"
                        /\ UNCHANGED fetch_response
    /\ UNCHANGED <<payload, vid, raw, clip_vars, sel>>

\* lines 92-117 and the except clauses: outcome is what list_transcripts does
ListTranscripts(outcome) ==
    /\ pc = "listing"
    /\ calls' = Append(calls, ProviderCall("list_transcripts", outcome.exc))
    /\ IF outcome.exc # NoExc
       THEN /\ fetch_response' = Handle(outcome.exc)
            /\ pc' = "idle"
            /\ UNCHANGED <<transcript_list, transcript>>
       ELSE LET s == SelectTranscript(outcome.value, payload.language)
            IN  /\ transcript_list' = outcome.value
                /\ transcript' = s.transcript
                /\ IF s.exc # ""
                   THEN /\ fetch_response' = Handle(Exc(s.exc, <<>>))
                        /\ pc' = "idle"
                   ELSE /\ pc' = "fetching"
                        /\ UNCHANGED fetch_response
    /\ UNCHANGED <<payload, vid, raw, clip_vars, sel>>

\* lines 118-130: outcome is what transcript.fetch() does
FetchCues(outcome) ==
    /\ pc = "fetching"
    /\ calls' = Append(calls, ProviderCall("fetch", outcome.exc))
    /\ pc' = "idle"
    /\ raw' = outcome.value
    /\ IF outcome.exc # NoExc
       THEN fetch_response' = Handle(outcome.exc)
       ELSE LET n == Normalize(outcome.value)
            IN  IF n.exc # ""
                THEN fetch_response' = Handle(Exc(n.exc, ValueErrorMsg))
                ELSE fetch_response' = FetchResponse(vid, n.segments)
    /\ UNCHANGED <<payload, vid, transcript_list, transcript, clip_vars, sel>>

(***************************************************************************)
(* The clip store (database.create_document / database.get_documents).     *)
(***************************************************************************)
\* longest clip collection
MaxClips == 2

ObjectId(n) == [oid |-> n]

\* str(ObjectId)
ObjectIdStr(o) == [hex |-> o.oid]

\* the collection after create_document("clip", clip)
create_document(collection, clip) ==
    Append(collection, [f \in DOMAIN clip \cup {"_id"} |->
                           IF f = "_id" THEN ObjectId(Len(collection) + 1)
                           ELSE clip[f]])

\* get_documents("clip", {"video_id": video_id})
get_documents(collection, video_id) ==
    LET Matches(r) == r.video_id = video_id
    IN  SelectSeq(collection, Matches)

(***************************************************************************)
(* POST /api/clips and GET /api/clips.                                     *)
(***************************************************************************)
NoClipRequest == [kind |-> "none"]

NoClipResponse == [status |-> 0]

\* line 145: the f-string
ShareUrl(video_id, n) == <<"https://youtu.be/", video_id, "?t=", n>>

\* lines 137-146
Clip(req) ==
    [video_id |-> req.video_id,
     user_id |-> req.user_id,
     start |-> req.start,
     end |-> req.end,
     title |-> req.title,
     transcript_snippet |-> req.transcript_snippet,
     export_status |-> "ready",
     share_url |-> ShareUrl(req.video_id, IntOf(req.start).n)]

\* line 135
InvalidRange(req) == FloatLe(req.end, req.start)

\* lines 134-148; an exception of int() or of the store leaves the handler
\* and is answered with status 500
CreateClip(req, store_up) ==
    /\ Len(store) < MaxClips
    /\ clip_request' = [kind |-> "create", req |-> req]
    /\ IF InvalidRange(req)
       THEN /\ clip_response' = [status |-> 400,
                                 detail |-> "Rentang waktu tidak valid."]
            /\ UNCHANGED store
       ELSE IF IntOf(req.start).exc # "" \/ ~store_up
       THEN /\ clip_response' = [status |-> 500]
            /\ UNCHANGED store
       ELSE /\ store' = create_document(store, Clip(req))
            /\ clip_response' =
                   [status |-> 200,
                    id |-> ObjectIdStr(store'[Len(store')]._id),
                    share_url |-> Clip(req).share_url]
    /\ UNCHANGED <<fetch_vars, sel>>

\* ListClips writing the string ids back into the collection
ListClipsWriteBack(video_id, store_up) ==
    /\ clip_request' = [kind |-> "list", video_id |-> video_id]
    /\ IF ~store_up
       THEN /\ clip_response' = [status |-> 500]
            /\ UNCHANGED store
       ELSE LET results == get_documents(store, video_id)
            IN  /\ clip_response' =
                       [status |-> 200,
                        items |-> [i \in 1..Len(results) |->
                                     [results[i] EXCEPT !._id = ObjectIdStr(@)]]]
                /\ store' = [i \in 1..Len(store) |->
                                IF store[i].video_id = video_id
                                THEN [store[i] EXCEPT !._id = ObjectIdStr(@)]
                                ELSE store[i]]
    /\ UNCHANGED <<fetch_vars, sel>>

\* lines 152-157
ListClips(video_id, store_up) ==
    /\ clip_request' = [kind |-> "list", video_id |-> video_id]
    /\ IF ~store_up
       THEN clip_response' = [status |-> 500]
       ELSE LET results == get_documents(store, video_id)
            IN  clip_response' =
                    [status |-> 200,
                     items |-> [i \in 1..Len(results) |->
                                  [results[i] EXCEPT !._id = ObjectIdStr(@)]]]
    /\ UNCHANGED <<store, fetch_vars, sel>>

(***************************************************************************)
(* Two runs of the selection over the same tracks, reported in two orders. *)
(***************************************************************************)
RequestedLanguages == {None, ""} \cup LanguageCodes

Orderings(tl) ==
    {[i \in 1..Len(tl) |-> tl[f[i]]] : f \in {g \in [1..Len(tl) -> 1..Len(tl)] :
                                               Injective(g)}}

SelRun(l, a, b) ==
    [language |-> l, orderA |-> a, orderB |-> b, done |-> FALSE,
     pickedA |-> SelectTranscript(<<>>, None),
     pickedB |-> SelectTranscript(<<>>, None)]

Select ==
    /\ ~sel.done
    /\ sel' = [sel EXCEPT !.done = TRUE,
                         !.pickedA = SelectTranscript(sel.orderA, sel.language),
                         !.pickedB = SelectTranscript(sel.orderB, sel.language)]
    /\ UNCHANGED <<fetch_vars, clip_vars>>

(***************************************************************************)
(* Inputs of the requests.                                                 *)
(***************************************************************************)
\* longest cue sequence a track returns
MaxCues == 2

Urls == {UrlShort, UrlWatch, UrlEmbedLong, UrlTooShort, UrlLateMatch, UrlNone}

Languages == {None, "", "fr", "en"}

MsgLens == {0, 7, 120, 121, 130}

ProviderExcs ==
    {Exc("TranscriptsDisabled", Msg(7)), Exc("NoTranscriptFound", Msg(7))}
    \cup {Exc("RequestException", Msg(n)) : n \in MsgLens}

Raises(e) == [exc |-> e, value |-> <<>>]

Returns(v) == [exc |-> NoExc, value |-> v]

ProviderLists ==
    {<<>>,
     <<Track("fr", FALSE)>>,
     <<Track("en", FALSE), Track("id", TRUE)>>,
     <<Track("de", TRUE), Track("fr", TRUE), Track("fr", FALSE)>>}

ListOutcomes ==
    {Raises(e) : e \in ProviderExcs} \cup {Returns(l) : l \in ProviderLists}

CueSamples ==
    {[start |-> Fin(10), duration |-> Fin(25), text |-> <<"a", "\n", "b", " ">>],
     [start |-> Fin(35), duration |-> Fin(0), text |-> <<>>],
     [text |-> <<"c">>],
     [start |-> Fin(40), text |-> <<" ", "d">>],
     [start |-> Malformed, duration |-> Fin(5), text |-> <<"e">>]}

CueSeqsUpTo(n) == UNION {[1..k -> CueSamples] : k \in 0..n}

FetchOutcomes ==
    {Raises(e) : e \in ProviderExcs} \cup {Returns(c) : c \in CueSeqsUpTo(MaxCues)}

VideoIds == {"dQw4w9WgXcQ", "abcdefghijk"}

\* title, transcript_snippet and user_id, all absent or all present
Optionals ==
    {[title |-> None, transcript_snippet |-> None, user_id |-> None],
     [title |-> "t", transcript_snippet |-> "s", user_id |-> "u"]}

ClipRequests(floats, optionals) ==
    {[video_id |-> v, start |-> a, end |-> b, title |-> o.title,
      transcript_snippet |-> o.transcript_snippet, user_id |-> o.user_id] :
        v \in VideoIds, a \in floats, b \in floats, o \in optionals}

(***************************************************************************)
(* Specifications.                                                         *)
(***************************************************************************)
InitRequests ==
    /\ pc = "idle"
    /\ payload = [url |-> <<>>, language |-> None]
    /\ vid = <<>>
    /\ transcript_list = <<>>
    /\ transcript = <<>>
    /\ raw = <<>>
    /\ calls = <<>>
    /\ fetch_response = NoResponse
    /\ store = <<>>
    /\ clip_request = NoClipRequest
    /\ clip_response = NoClipResponse

NoSel == SelRun(None, <<>>, <<>>)

\* the service: fetch requests interleaved with clip requests
Init ==
    /\ InitRequests
    /\ sel = [NoSel EXCEPT !.done = TRUE]

SystemFloats == {Fin(50), Fin(51), NaN}

Fetch ==
    \/ \E url \in {UrlShort, UrlNone} : FetchStart(url, None)
    \/ \E o \in {Raises(Exc("TranscriptsDisabled", Msg(7))),
                 Raises(Exc("RequestException", Msg(7))),
                 Returns(<<Track("en", TRUE)>>)} : ListTranscripts(o)
    \/ \E o \in {Raises(Exc("RequestException", Msg(7))),
                 Returns(<<[start |-> Fin(10), duration |-> Fin(25),
                            text |-> <<"a">>]>>)} : FetchCues(o)

Create == \E req \in ClipRequests(SystemFloats, Optionals), up \in BOOLEAN : CreateClip(req, up)

List == \E v \in VideoIds, up \in BOOLEAN : ListClips(v, up)

Next == Fetch \/ Create \/ List

Spec == Init /\ [][Next]_vars

\* fetch requests alone, over the larger inputs
FetchRich ==
    \/ \E url \in Urls, l \in Languages : FetchStart(url, l)
    \/ \E o \in ListOutcomes : ListTranscripts(o)
    \/ \E o \in FetchOutcomes : FetchCues(o)

NextFetch == FetchRich

SpecFetch == Init /\ [][NextFetch]_vars

\* clip requests alone, over the larger inputs
ClipFloats == {Fin(-15), Fin(120), Fin(129), NaN, NegInf, PosInf}

CreateRich ==
    \E req \in ClipRequests(ClipFloats, {o \in Optionals : o.title = None}),
       up \in BOOLEAN : CreateClip(req, up)

NextClip == CreateRich \/ List

SpecClip == Init /\ [][NextClip]_vars

\* the selection alone
InitSel ==
    /\ InitRequests
    /\ \E l \in RequestedLanguages, a \in TrackListsUpTo(MaxTracks) :
           \E b \in Orderings(a) : sel = SelRun(l, a, b)

NextSel == Select

SpecSel == InitSel /\ [][NextSel]_vars

(***************************************************************************)
(* Properties of the selection (SpecSel).                                  *)
(***************************************************************************)
Available == Range(sel.orderA)

HasCode(c) == \E t \in Available : t.language_code = c

Selected(p) == p.exc = "" /\ Len(p.transcript) = 1

\* the selection of run A is the track of code c, manual when there is one
PicksCode(c) ==
    /\ Selected(sel.pickedA)
    /\ sel.pickedA.transcript[1].language_code = c
    /\ Track(c, FALSE) \in Available =>
           sel.pickedA.transcript[1] = Track(c, FALSE)
    /\ sel.pickedA.transcript[1].is_generated => Track(c, FALSE) \notin Available

RequestedAvailable == LanguageGiven(sel.language) /\ HasCode(sel.language)

\* C1: when a language L is requested and some available track has code L,
\* the selected track has code L; it is the manual L track when one exists and
\* a generated L track only when no manual one exists, whatever "id" and "en"
\* tracks are available.
C1_RequestedLanguageWins ==
    (sel.done /\ RequestedAvailable) => PicksCode(sel.language)

C1_Witness ==
    /\ sel.done
    /\ sel.language = "fr"
    /\ Available = {Track("fr", TRUE), Track("id", FALSE), Track("en", FALSE)}
    /\ sel.pickedA.transcript = <<Track("fr", TRUE)>>

C3_SelectionTotal ==
    sel.done =>
        /\ Available # {} =>
               /\ Selected(sel.pickedA)
               /\ sel.pickedA.transcript[1] \in Available
        /\ (sel.pickedA.exc = "NoTranscriptFound") <=> (Available = {})
        /\ sel.pickedA.exc \in {"", "NoTranscriptFound"}

C3_Witness ==
    /\ sel.done
    /\ sel.language = "en"
    /\ Available = {Track("fr", TRUE), Track("de", FALSE)}
    /\ sel.pickedA.transcript = <<Track("de", FALSE)>>

\* C4 as stated: two runs over the same tracks and the same requested language
\* select the same track, whatever the order the provider reports them in.
C4_Deterministic == sel.done => sel.pickedA = sel.pickedB

FirstReported(tl) == <<TranscriptListIter(tl)[1]>>

\* C4 amended: the two runs select the same track whenever some track has the
\* requested code, "id" or "en"; when none has, each run selects the first
\* track of its own report, manual tracks before generated ones.
C4_DeterministicUpToFallback ==
    sel.done =>
        /\ (RequestedAvailable \/ HasCode("id") \/ HasCode("en")) =>
               sel.pickedA = sel.pickedB
        /\ (Available # {} /\ ~RequestedAvailable /\ ~HasCode("id")
              /\ ~HasCode("en")) =>
               /\ sel.pickedA.transcript = FirstReported(sel.orderA)
               /\ sel.pickedB.transcript = FirstReported(sel.orderB)

C4_Witness ==
    /\ sel.done
    /\ sel.language = None
    /\ sel.orderA = <<Track("en", TRUE), Track("en", FALSE), Track("fr", FALSE)>>
    /\ sel.orderB = <<Track("fr", FALSE), Track("en", FALSE), Track("en", TRUE)>>
    /\ sel.pickedA = sel.pickedB
    /\ sel.pickedA.transcript = <<Track("en", FALSE)>>

(***************************************************************************)
(* Properties of fetch requests (SpecFetch).                               *)
(***************************************************************************)
\* the id Python's re.search finds in each of the URLs, <<>> for no match
ExpectedId(url) ==
    IF url = UrlShort THEN <<"d", "Q", "w", "4", "w", "9", "W", "g", "X", "c", "Q">>
    ELSE IF url = UrlWatch
    THEN <<"a", "b", "c", "d", "e", "f", "g", "h", "i", "j", "k">>
    ELSE IF url = UrlEmbedLong
    THEN <<"A", "A", "A", "A", "A", "A", "A", "A", "A", "A", "A">>
    ELSE IF url = UrlLateMatch
    THEN <<"0", "1", "2", "3", "4", "5", "6", "7", "8", "9", "Z">>
    ELSE <<>>

\* a fetch request has been answered
Answered == pc = "idle" /\ fetch_response # NoResponse

NotAvailableTypes == {"TranscriptsDisabled", "NoTranscriptFound"}

RaisedIn(types) == \E i \in 1..Len(calls) : ~calls[i].ok /\ calls[i].exc.type \in types

RaisedOther == \E i \in 1..Len(calls) : ~calls[i].ok /\ calls[i].exc.type \notin NotAvailableTypes

ListedNothing == Len(calls) = 1 /\ calls[1].ok /\ transcript_list = <<>>

MalformedCue ==
    \E i \in 1..Len(raw) :
        \E f \in DOMAIN raw[i] \cap {"start", "duration"} : raw[i][f] = Malformed

\* the message of the failure the request ended with
FailureMsg == IF RaisedOther THEN calls[Len(calls)].exc.msg ELSE ValueErrorMsg

\* the detail is the fixed prefix and then the first characters of msg, at
\* most 120 of them
CarriesTruncated(detail, msg) ==
    /\ Len(detail) >= 1
    /\ Len(detail) - 1 <= 120
    /\ Len(detail) - 1 = (IF Len(msg) <= 120 THEN Len(msg) ELSE 120)
    /\ \A i \in 1..(Len(detail) - 1) : detail[i + 1] = msg[i]

\* C6: a fetch request ends in exactly one of four outcomes: 400 if and only
\* if no video id can be extracted from the URL; 404 when the provider
\* reports TranscriptsDisabled or NoTranscriptFound; 500 with at most the
\* first 120 characters of the message for any other failure while listing,
\* selecting, fetching or normalizing; otherwise 200 with the extracted id.
C6_FetchOutcomes ==
    Answered =>
        /\ fetch_response.status \in {200, 400, 404, 500}
        /\ (fetch_response.status = 400) <=> (ExpectedId(payload.url) = <<>>)
        /\ RaisedIn(NotAvailableTypes) => fetch_response.status = 404
        /\ (RaisedOther \/ MalformedCue) =>
               /\ fetch_response.status = 500
               /\ CarriesTruncated(fetch_response.detail, FailureMsg)
        /\ (ExpectedId(payload.url) # <<>> /\ ~RaisedIn(NotAvailableTypes)
              /\ ~ListedNothing /\ ~RaisedOther /\ ~MalformedCue) =>
               /\ fetch_response.status = 200
               /\ fetch_response.video_id = ExpectedId(payload.url)

C6_Witness ==
    /\ Answered
    /\ payload.url = UrlLateMatch
    /\ Len(calls) = 2
    /\ ~calls[2].ok
    /\ Len(calls[2].exc.msg) = 130
    /\ fetch_response.status = 500
    /\ Len(fetch_response.detail) = 121

Count(op) == Cardinality({i \in 1..Len(calls) : calls[i].op = op})

\* C7: within one fetch request list_transcripts is called at most once and
\* fetch() at most once, list_transcripts before fetch(); neither is called
\* when the URL yields no video id; once a call fails the request ends with a
\* failure and no further call.
C7_NoRetries ==
    /\ Count("list_transcripts") <= 1
    /\ Count("fetch") <= 1
    /\ \A i \in 1..Len(calls) :
           calls[i].op = "fetch" => \E j \in 1..(i - 1) : calls[j].op = "list_transcripts"
    /\ ExpectedId(payload.url) = <<>> => calls = <<>>
    /\ \A i \in 1..Len(calls) :
           ~calls[i].ok => /\ i = Len(calls)
                           /\ pc = "idle"
                           /\ fetch_response.status \in {404, 500}

C7_Witness ==
    /\ Len(calls) = 2
    /\ calls[1].op = "list_transcripts" /\ calls[1].ok
    /\ calls[2].op = "fetch" /\ ~calls[2].ok
    /\ pc = "idle"
    /\ fetch_response.status = 404

\* C8: the segments of a successful fetch are as many as the cues the track
\* returned, and at every position i the segment has index i, the cue's start
\* (0 if absent) and end = start + duration (duration 0 if absent); cues of
\* zero duration or empty text are kept, in order.
C8_NormalizePositionwise ==
    (Answered /\ fetch_response.status = 200) =>
        /\ Len(fetch_response.segments) = Len(raw)
        /\ \A i \in 1..Len(raw) :
             LET seg == fetch_response.segments[i]
                 st  == IF "start" \in DOMAIN raw[i] THEN raw[i].start.v ELSE 0
                 du  == IF "duration" \in DOMAIN raw[i] THEN raw[i].duration.v ELSE 0
             IN  /\ seg.index = i - 1
                 /\ seg.start = Fin(st)
                 /\ seg.end = Fin(st + du)

C8_Witness ==
    /\ Answered
    /\ fetch_response.status = 200
    /\ raw = <<[text |-> <<"c">>],
               [start |-> Fin(35), duration |-> Fin(0), text |-> <<>>]>>
    /\ Len(fetch_response.segments) = 2
    /\ fetch_response.segments[2] =
           [start |-> Fin(35), end |-> Fin(35), text |-> <<>>, index |-> 1]

(***************************************************************************)
(* Properties of clip requests (Spec, SpecClip).                           *)
(***************************************************************************)
LastCreate == clip_request.kind = "create"

\* C5: every clip record in the store satisfies end > start, and a
\* create-clip request with end <= start is answered 400.
C5_ClipsEndAfterStart ==
    /\ \A i \in 1..Len(store) : FloatGt(store[i].end, store[i].start)
    /\ (LastCreate /\ FloatLe(clip_request.req.end, clip_request.req.start)) =>
           clip_response.status = 400

\* n is the float x (in tenths) with its fraction dropped
IsTruncationOf(n, x) ==
    /\ x.k = "fin"
    /\ IF x.v >= 0 THEN 10 * n <= x.v /\ x.v < 10 * n + 10
       ELSE 10 * n >= x.v /\ x.v > 10 * n - 10

DeepLink(url, video_id, start) ==
    /\ Len(url) = 4
    /\ url[1] = "https://youtu.be/"
    /\ url[2] = video_id
    /\ url[3] = "?t="
    /\ IsTruncationOf(url[4], start)

\* C9: every record the store holds has export_status "ready" and the share
\* url https://youtu.be/<video_id>?t=<n>, n the start with its fraction
\* dropped; a successful create-clip request has persisted such a record for
\* the request's video_id and start, and returns that record's share url and
\* the id the store generated.
C9_ShareUrl ==
    /\ \A i \in 1..Len(store) :
           /\ store[i].export_status = "ready"
           /\ DeepLink(store[i].share_url, store[i].video_id, store[i].start)
    /\ (LastCreate /\ clip_response.status = 200) =>
           /\ Len(store) >= 1
           /\ LET r == store[Len(store)]
              IN  /\ r.video_id = clip_request.req.video_id
                  /\ r.start = clip_request.req.start
                  /\ r.end = clip_request.req.end
                  /\ DeepLink(r.share_url, clip_request.req.video_id,
                              clip_request.req.start)
                  /\ clip_response.share_url = r.share_url
                  /\ clip_response.id = ObjectIdStr(r._id)
                  /\ r._id = ObjectId(Len(store))

C9_Witness ==
    /\ LastCreate
    /\ clip_response.status = 200
    /\ clip_request.req.start = Fin(129)
    /\ clip_response.share_url = <<"https://youtu.be/", "dQw4w9WgXcQ", "?t=", 12>>
    /\ Len(store) = 2
    /\ store[1].start = Fin(-15)
    /\ store[1].share_url[4] = -1

\* C10: the store changes only by a successful create-clip request, which
\* appends one record and leaves the records already there as they were;
\* steps of a fetch request, list-clips requests and rejected or failed
\* create-clip requests leave the store unchanged.
C10_StoreFrame ==
    [][/\ store' # store =>
              /\ clip_request'.kind = "create"
              /\ clip_response'.status = 200
              /\ Len(store') = Len(store) + 1
              /\ SubSeq(store', 1, Len(store)) = store
       /\ fetch_vars' # fetch_vars => store' = store
       /\ clip_request'.kind = "list" => store' = store
       /\ clip_response'.status \in {400, 500} => store' = store]_vars

C10_Witness ==
    /\ Len(store) = 2
    /\ clip_request.kind = "list"
    /\ clip_response.status = 200
    /\ Len(clip_response.items) = 1
    /\ pc = "idle"
    /\ fetch_response.status = 200

====
